---- MODULE Spec2Model ----
(***************************************************************************)
(* Model of devrev_merge.py: the duplicate resolver                        *)
(* (ContactMerger.identify_duplicates), the per-pair merge orchestration   *)
(* (ContactMerger.merge_contacts driven by ContactMerger.process_csv), the *)
(* savepoint ledger (SavePoint) and the remote calls of DevRevAPI.         *)
(*                                                                         *)
(* Strings whose content the code inspects (emails, external refs) are     *)
(* sequences of one-character strings, so that str.lower() and             *)
(* str.startswith() are computed and not assumed.                          *)
(***************************************************************************)
EXTENDS Integers, Sequences, FiniteSets, TLC

(***************************************************************************)
(* Bounds of the model.                                                    *)
(***************************************************************************)
\* rows of the CSV in the resolver-only specification
MaxContacts == 3
\* rows of the CSV in the full-run specification
MaxRows == 4
\* consecutive runs of the script over the same CSV and savepoint file
MaxRuns == 2

(***************************************************************************)
(* Strings.                                                                *)
(***************************************************************************)
UpperChars == <<"A","B","C","D","E","F","G","H","I","J","K","L","M",
                "N","O","P","Q","R","S","T","U","V","W","X","Y","Z">>
LowerChars == <<"a","b","c","d","e","f","g","h","i","j","k","l","m",
                "n","o","p","q","r","s","t","u","v","w","x","y","z">>

\* str.lower() on one character
LowerChar(ch) ==
    IF \E i \in 1..Len(UpperChars) : UpperChars[i] = ch
    THEN LowerChars[CHOOSE i \in 1..Len(UpperChars) : UpperChars[i] = ch]
    ELSE ch

\* str.lower()
Lower(s) == [i \in 1..Len(s) |-> LowerChar(s[i])]

\* str.startswith(prefix)
StartsWith(s, prefix) ==
    /\ Len(s) >= Len(prefix)
    /\ SubSeq(s, 1, Len(prefix)) = prefix

REVU_PREFIX == <<"R","E","V","U","-">>
USER_PREFIX == <<"u","s","e","r","_">>

\* the external refs and emails the inputs are drawn from
REVU9 == <<"R","E","V","U","-","9">>
REVU8 == <<"R","E","V","U","-","8">>
USER1 == <<"u","s","e","r","_","1">>
USER2 == <<"u","s","e","r","_","2">>
REVUX == <<"R","E","V","U","9">>
EMPTY == <<>>
MailX == <<"x","@","y">>
MailXUpper == <<"X","@","Y">>
MailA == <<"a","@","b">>

\* REV_USER_ID of the row at a given position of the CSV
IdNames == <<"A","B","C","D","E","F">>

(***************************************************************************)
(* Contact                                                                 *)
(***************************************************************************)
\* Contact.is_revu_contact: external_ref and external_ref.startswith("REVU-")
is_revu_contact(c) ==
    c.external_ref # <<>> /\ StartsWith(c.external_ref, REVU_PREFIX)

\* a resolver that accepts any non-empty ref as a user_ ref
is_user_contact_anyref(c) == c.external_ref # <<>>

\* Contact.is_user_contact: external_ref and external_ref.startswith("user_")
is_user_contact(c) ==
    c.external_ref # <<>> /\ StartsWith(c.external_ref, USER_PREFIX)

(***************************************************************************)
(* SavePoint.is_processed                                                  *)
(***************************************************************************)
\* a lookup with the two ids swapped
is_processed_swapped(pairs, primary_id, duplicate_id) ==
    <<duplicate_id, primary_id>> \in pairs

is_processed(pairs, primary_id, duplicate_id) ==
    <<primary_id, duplicate_id>> \in pairs

(***************************************************************************)
(* ContactMerger.identify_duplicates                                       *)
(***************************************************************************)
\* keys of contact_groups in insertion order (dict.setdefault keeps the
\* position of the first occurrence of each lower-cased email)
RECURSIVE GroupKeysFrom(_, _, _)
GroupKeysFrom(cs, i, acc) ==
    IF i > Len(cs) THEN acc
    ELSE LET key == Lower(cs[i].email)
         IN  IF \E j \in 1..Len(acc) : acc[j] = key
             THEN GroupKeysFrom(cs, i + 1, acc)
             ELSE GroupKeysFrom(cs, i + 1, Append(acc, key))

\* the groups taken in the reverse of the order they were first seen in
GroupKeysReversed(cs) ==
    LET ks == GroupKeysFrom(cs, 1, <<>>)
    IN  [i \in 1..Len(ks) |-> ks[Len(ks) + 1 - i]]

GroupKeys(cs) == GroupKeysFrom(cs, 1, <<>>)

\* contact_groups[key]: the contacts with that lower-cased email, in input order
GroupOf(cs, key) == SelectSeq(cs, LAMBDA c : Lower(c.email) = key)

\* a scan that keeps the first revu contact of the group
FirstRevu(group) ==
    LET hits == {i \in 1..Len(group) : is_revu_contact(group[i])}
    IN  IF hits = {} THEN 0 ELSE CHOOSE i \in hits : \A j \in hits : i <= j

\* the scan of lines 403-407: each matching contact overwrites the previous
\* one, so the last revu contact and the last user contact of the group win;
\* 0 stands for None
LastRevu(group) ==
    LET hits == {i \in 1..Len(group) : is_revu_contact(group[i])}
    IN  IF hits = {} THEN 0 ELSE CHOOSE i \in hits : \A j \in hits : j <= i

LastUser(group) ==
    LET hits == {i \in 1..Len(group) :
                    ~is_revu_contact(group[i]) /\ is_user_contact(group[i])}
    IN  IF hits = {} THEN 0 ELSE CHOOSE i \in hits : \A j \in hits : j <= i

\* a resolver that skips a group in which a marker is carried by more than
\* one contact
GroupPairsStrict(group, pairs) ==
    LET r == LastRevu(group)
        u == LastUser(group)
        revus == {i \in 1..Len(group) : is_revu_contact(group[i])}
        users == {i \in 1..Len(group) : is_user_contact(group[i])}
    IN  IF Len(group) < 2 THEN <<>>
        ELSE IF Cardinality(revus) = 1 /\ Cardinality(users) = 1
             THEN IF ~is_processed(pairs, group[r].rev_user_id, group[u].rev_user_id)
                  THEN << <<group[r], group[u]>> >>
                  ELSE <<>>
             ELSE <<>>

\* the pair appended for one group, as a sequence of zero or one pairs,
\* with the user_ contact put first
GroupPairsUserFirst(group, pairs) ==
    LET r == LastRevu(group)
        u == LastUser(group)
    IN  IF Len(group) < 2 THEN <<>>
        ELSE IF r # 0 /\ u # 0
             THEN IF ~is_processed(pairs, group[r].rev_user_id, group[u].rev_user_id)
                  THEN << <<group[u], group[r]>> >>
                  ELSE <<>>
             ELSE <<>>

\* a resolver that skips every group that does not hold exactly two contacts
GroupPairsOnlyTwo(group, pairs) ==
    LET r == LastRevu(group)
        u == LastUser(group)
    IN  IF Len(group) # 2 THEN <<>>
        ELSE IF r # 0 /\ u # 0
             THEN IF ~is_processed(pairs, group[r].rev_user_id, group[u].rev_user_id)
                  THEN << <<group[r], group[u]>> >>
                  ELSE <<>>
             ELSE <<>>

\* the pair appended for one group (lines 396-414), as a sequence of zero or
\* one pairs <<revu_contact, user_contact>>
GroupPairs(group, pairs) ==
    LET r == LastRevu(group)
        u == LastUser(group)
    IN  IF Len(group) < 2 THEN <<>>
        ELSE IF r # 0 /\ u # 0
             THEN IF ~is_processed(pairs, group[r].rev_user_id, group[u].rev_user_id)
                  THEN << <<group[r], group[u]>> >>
                  ELSE <<>>
             ELSE <<>>

RECURSIVE DuplicatesFrom(_, _, _, _)
DuplicatesFrom(cs, keys, i, pairs) ==
    IF i > Len(keys) THEN <<>>
    ELSE GroupPairs(GroupOf(cs, keys[i]), pairs)
             \o DuplicatesFrom(cs, keys, i + 1, pairs)

identify_duplicates(cs, pairs) == DuplicatesFrom(cs, GroupKeys(cs), 1, pairs)

(***************************************************************************)
(* DevRevAPI.make_request                                                  *)
(***************************************************************************)
\* self.max_retries
max_retries == 3

\* self.retry_delay, in seconds
retry_delay == 2

\* what one HTTP attempt can produce: a status code, or 0 when
\* session.request raises a transport exception and there is no response
TRANSPORT_ERROR == 0
RetryableStatus == {429, 500, 502, 503, 504}
Statuses == {200, 400, 401, 404} \cup RetryableStatus
Responses == Statuses \cup {TRANSPORT_ERROR}

\* a make_request that raises on the first retryable response
make_request_noretry(script, retry_count) ==
    LET resp == script[retry_count + 1]
    IN  [ok |-> resp # TRANSPORT_ERROR /\ resp < 400,
         attempts |-> retry_count + 1, last |-> resp]

\* make_request(method, endpoint, data, retry_count): script[k] is the
\* outcome of the k-th HTTP attempt.  The result records whether a response
\* was returned (ok) or the error was raised, the number of attempts made and
\* the outcome of the last attempt.
RECURSIVE make_request(_, _)
make_request(script, retry_count) ==
    LET resp == script[retry_count + 1]
        raised == [ok |-> FALSE, attempts |-> retry_count + 1, last |-> resp]
    IN  IF resp = TRANSPORT_ERROR THEN raised
        ELSE IF resp \in RetryableStatus
             THEN IF retry_count < max_retries
                  THEN make_request(script, retry_count + 1)
                  ELSE raised
             ELSE IF resp >= 400 THEN raised
                  ELSE [ok |-> TRUE, attempts |-> retry_count + 1, last |-> resp]

\* k retryable responses
Retry(k) == [i \in 1..k |-> 503]

\* the response scripts the full-run specification draws from: k retryable
\* responses followed by a final one, padded to max_retries + 1 attempts
Scripts ==
    {Retry(k) \o <<t>> \o [i \in 1..(max_retries - k) |-> 200] :
        k \in 0..max_retries, t \in {200, 404, TRANSPORT_ERROR}}
    \cup {Retry(max_retries + 1)}

\* no make_request call is being followed
NoRequest ==
    [script |-> <<>>, retry_count |-> 0, attempts |-> 0, sleeps |-> <<>>,
     last |-> 0, status |-> "idle"]

(***************************************************************************)
(* DevRevAPI.merge_contacts and DevRevAPI.update_external_ref              *)
(***************************************************************************)
\* a wrapper that reports success whatever the request did
api_merge_contacts_always_true(script) == TRUE

\* DevRevAPI.merge_contacts: True when make_request returned, False when it
\* raised
api_merge_contacts(script) == make_request(script, 0).ok

\* DevRevAPI.update_external_ref: True when make_request returned, False
\* when it raised
update_external_ref(script) == make_request(script, 0).ok

\* an update that sends the primary's own ref
forced_external_ref_own(prim, dup) == prim.external_ref

\* the external_ref merge_contacts passes to update_external_ref (line 507)
forced_external_ref(prim, dup) == dup.external_ref

(***************************************************************************)
(* DevRevAPI.backup_contact_data                                           *)
(***************************************************************************)
\* one capture: which of the remote reads succeeded.  get_user_info swallows
\* its own failure (returns {}), the four make_request calls do not.
BackupReads == [user : BOOLEAN, owned : BOOLEAN, created : BOOLEAN,
                reported : BOOLEAN, conversations : BOOLEAN]

backup_contact_data(reads) ==
    reads.owned /\ reads.created /\ reads.reported /\ reads.conversations

\* no backup_contact_data call is being followed
NoBackup == [contact |-> "-", reads |-> <<>>, result |-> "-"]

(***************************************************************************)
(* DevRevAPI.quick_user_lookup and DevRevAPI.verify_merge                  *)
(***************************************************************************)
\* what the single POST /rev-users.get of quick_user_lookup can meet
Lookups == {"not_found", "no_rev_user", "deleted", "locked", "shadow",
            "archived", "active", "http_error", "transport_error"}

\* verify_merge(secondary_id): "true", "false", or "raise" when an exception
\* leaves the function.  On a transport exception session.request never
\* assigned r, so the handler's r.status_code raises UnboundLocalError,
\* which is not a RequestException and propagates.
verify_merge(lookup) ==
    IF lookup = "transport_error" THEN "raise"
    ELSE IF lookup \in {"not_found", "http_error"} THEN "true"
    ELSE IF lookup = "no_rev_user" THEN "true"
    ELSE IF lookup \in {"deleted", "locked", "shadow", "archived"} THEN "true"
    ELSE "false"

(***************************************************************************)
(* ContactMerger.verify_backup_integrity                                   *)
(***************************************************************************)
\* what the check of the stored snapshots can meet: both works.json match
\* the ticket counts, a count differs, no backup directory is found for a
\* contact, or reading a snapshot raises (stat, open, json.load)
IntegrityOutcomes == {"passed", "count_mismatch", "no_backup_found", "read_error"}

\* a verify_backup_integrity that lets the read error out
verify_backup_integrity_strict(outcome) ==
    IF outcome = "read_error" THEN "raise" ELSE "none"

\* verify_backup_integrity: logs and returns None; the whole body is inside
\* try / except Exception, so "raise" is never the result
verify_backup_integrity(outcome) == "none"

(***************************************************************************)
(* State                                                                   *)
(***************************************************************************)
VARIABLES
    contacts,        \* the rows of the CSV, as Contact records
    savepoint_file,  \* savepoint.json: [kind, pairs]; kind is "missing", "ok",
                     \* "corrupt" (not JSON) or "bad_structure" (JSON, but the
                     \* key is missing or an entry is not a list); pairs are
                     \* the well-formed entries the file holds
    external_refs,   \* RecordStore: external_ref of each record, by rev_user_id
    merged_remote,   \* RecordStore: the <<primary, secondary>> merges it accepted
    run,             \* number of the current run of the script
    pc,              \* position of the run
    preview_mode,    \* ContactMerger.preview_mode
    processed_pairs, \* SavePoint.processed_pairs (in memory)
    duplicates,      \* the pairs identify_duplicates returned to process_csv
    idx,             \* process_csv: position of the pair being merged
    merged_pairs,    \* ContactMerger.merged_pairs
    failed_merges,   \* ContactMerger.failed_merges
    calls,           \* remote calls issued in the current run, in order
    cur,             \* outcome of each step of the pair last entered
    persisted_prev,  \* pairs readable from savepoint.json when the run started
    all_normal,      \* no run so far was started with --preview
    request,         \* one make_request call: its responses and how far it got
    backup           \* one backup_contact_data call: its reads and its result

vars == <<contacts, savepoint_file, external_refs, merged_remote, run, pc, preview_mode,
          processed_pairs, duplicates, idx, merged_pairs, failed_merges,
          calls, cur, persisted_prev, all_normal, request, backup>>

\* a Contact built by Contact.from_dict from the row at position i
ContactAt(i, email, ref) ==
    [rev_user_id |-> IdNames[i], email |-> email, external_ref |-> ref]

\* the CSV of n rows whose row i has email f[i][1] and external ref f[i][2]
Rows(n, f) == [i \in 1..n |-> ContactAt(i, f[i][1], f[i][2])]

\* the RecordStore the CSV was exported from: each record holds the
\* external_ref of its row
StoredRefs(cs) ==
    [i \in {IdNames[k] : k \in 1..Len(cs)} |->
        cs[CHOOSE k \in 1..Len(cs) : IdNames[k] = i].external_ref]

\* a load that ignores the file
load_nothing(file) == {}

\* a load that keeps the entries it could read
load_partial(file) == file.pairs

\* SavePoint.load: processed_pairs after __init__.  A missing file is not
\* opened; json.load of a file that is not JSON, data["processed_pairs"] of
\* a file without the key and tuple(p) of an entry that is not a list raise
\* inside the try, before the assignment to processed_pairs, which keeps the
\* empty set assigned by __init__.
load(file) == IF file.kind = "ok" THEN file.pairs ELSE {}

\* merge_script holds the responses the merge request met, from the merge
\* step until the next step of the pair is taken; integrity holds what
\* verify_backup_integrity met, until the merge step is taken
NoSteps ==
    [idx |-> 0, backup_primary |-> "-", backup_duplicate |-> "-",
     integrity |-> "-", merge |-> "-", merge_script |-> <<>>, lookup |-> "-",
     verify |-> "-", update |-> "-", save |-> "-", result |-> "-"]

TypeOK ==
    /\ pc \in {"load", "process_csv", "backup_primary", "backup_duplicate",
               "verify_backup", "merge", "verify_merge", "update_ref",
               "record", "done", "resolver_input", "resolver_done",
               "make_request", "backup_contact_data"}
    /\ run \in 1..MaxRuns
    /\ preview_mode \in BOOLEAN
    /\ savepoint_file.kind \in {"missing", "ok", "corrupt", "bad_structure"}
    /\ idx \in 0..(Len(duplicates) + 1)

(***************************************************************************)
(* Initial states of a full run: a CSV of up to MaxRows rows, no savepoint *)
(* file yet, and a RecordStore that holds the refs the CSV was exported    *)
(* with.  The CSV lists the rows of one email together (the refs in any    *)
(* order); CSVs whose emails interleave are covered by SpecResolver.       *)
(***************************************************************************)
RunEmails == {MailX, MailA}
RunRefs == {REVU9, USER1}

GroupedByEmail(n, f) ==
    \A i \in 1..n : \A j \in i..n : f[i][1] = MailA => f[j][1] = MailA

Init ==
    /\ \E n \in 0..MaxRows : \E f \in [1..n -> RunEmails \X RunRefs] :
          GroupedByEmail(n, f) /\ contacts = Rows(n, f)
    /\ savepoint_file = [kind |-> "missing", pairs |-> {}]
    /\ external_refs = StoredRefs(contacts)
    /\ merged_remote = {}
    /\ run = 1
    /\ pc = "load"
    /\ preview_mode = FALSE
    /\ processed_pairs = {}
    /\ duplicates = <<>>
    /\ idx = 0
    /\ merged_pairs = <<>>
    /\ failed_merges = <<>>
    /\ calls = <<>>
    /\ cur = NoSteps
    /\ persisted_prev = {}
    /\ all_normal = TRUE
    /\ request = NoRequest
    /\ backup = NoBackup

(***************************************************************************)
(* main / ContactMerger.__init__ / process_csv                             *)
(***************************************************************************)
\* the pair process_csv is handing to merge_contacts
primary == duplicates[idx][1]
duplicate == duplicates[idx][2]

\* main: a new process.  ContactMerger.__init__ builds the SavePoint, which
\* loads savepoint.json; process_csv then stores the --preview flag.
StartRun ==
    /\ pc = "load"
    /\ processed_pairs' = load(savepoint_file)
    /\ \E p \in BOOLEAN :
          /\ preview_mode' = p
          /\ all_normal' = (all_normal /\ ~p)
    /\ pc' = "process_csv"
    /\ UNCHANGED <<request, backup, contacts, savepoint_file, external_refs,
                   merged_remote, run, duplicates, idx, merged_pairs,
                   failed_merges, calls, cur, persisted_prev>>

\* a process_csv that enters the loop in preview mode too
ProcessCsvIgnoresPreview ==
    /\ pc = "process_csv"
    /\ duplicates' = identify_duplicates(contacts, processed_pairs)
    /\ IF Len(duplicates') = 0
       THEN pc' = "done" /\ idx' = 0
       ELSE pc' = "backup_primary" /\ idx' = 1
    /\ UNCHANGED <<request, backup, contacts, all_normal, savepoint_file,
                   external_refs, merged_remote, run, preview_mode,
                   processed_pairs, merged_pairs, failed_merges, calls, cur,
                   persisted_prev>>

\* process_csv up to the loop: resolve, and return at once in preview mode
ProcessCsv ==
    /\ pc = "process_csv"
    /\ duplicates' = identify_duplicates(contacts, processed_pairs)
    /\ IF preview_mode \/ Len(duplicates') = 0
       THEN pc' = "done" /\ idx' = 0
       ELSE pc' = "backup_primary" /\ idx' = 1
    /\ UNCHANGED <<request, backup, contacts, all_normal, savepoint_file,
                   external_refs, merged_remote, run, preview_mode,
                   processed_pairs, merged_pairs, failed_merges, calls, cur,
                   persisted_prev>>

\* the loop of process_csv moves on to the next pair, whatever
\* merge_contacts returned
NextPair ==
    /\ idx' = idx + 1
    /\ pc' = IF idx + 1 > Len(duplicates) THEN "done" ELSE "backup_primary"

\* the messages of the exceptions merge_contacts raises, and the one that
\* escapes verify_merge
BackupPrimaryError == "Failed to backup primary contact data - aborting merge"
BackupDuplicateError == "Failed to backup duplicate contact data - aborting merge"
MergeError == "Failed to merge contacts (API call returned false)"
LookupError == "UnboundLocalError"
IntegrityError == "Backup verification failed"

\* an except branch that ends the batch
FailedStopsBatch(steps, error) ==
    /\ failed_merges' = Append(failed_merges, <<primary, duplicate, error>>)
    /\ cur' = [steps EXCEPT !.result = "failure"]
    /\ idx' = idx
    /\ pc' = "done"
    /\ UNCHANGED <<merged_pairs, processed_pairs, savepoint_file,
                   external_refs>>

\* the except branch of merge_contacts
Failed(steps, error) ==
    /\ failed_merges' = Append(failed_merges, <<primary, duplicate, error>>)
    /\ cur' = [steps EXCEPT !.result = "failure"]
    /\ NextPair
    /\ UNCHANGED <<merged_pairs, processed_pairs, savepoint_file,
                   external_refs>>

(***************************************************************************)
(* ContactMerger.merge_contacts, one action per step                       *)
(***************************************************************************)
\* 1) backup of the primary
BackupPrimary ==
    /\ pc = "backup_primary"
    /\ ~preview_mode
    /\ calls' = Append(calls, <<"backup", primary.rev_user_id>>)
    /\ \E reads \in BackupReads :
          IF backup_contact_data(reads)
          THEN /\ cur' = [NoSteps EXCEPT !.idx = idx, !.backup_primary = "ok"]
               /\ pc' = "backup_duplicate"
               /\ UNCHANGED <<idx, failed_merges, merged_pairs,
                              processed_pairs, savepoint_file,
                              external_refs>>
          ELSE Failed([NoSteps EXCEPT !.idx = idx, !.backup_primary = "fail"],
                      BackupPrimaryError)
    /\ UNCHANGED <<request, backup, contacts, all_normal, merged_remote, run,
                   preview_mode, duplicates, persisted_prev>>

\* a backup of the duplicate whose False result is not checked
BackupDuplicateUnchecked ==
    /\ pc = "backup_duplicate"
    /\ calls' = Append(calls, <<"backup", duplicate.rev_user_id>>)
    /\ \E reads \in BackupReads :
          cur' = [cur EXCEPT !.backup_duplicate =
                     IF backup_contact_data(reads) THEN "ok" ELSE "fail"]
    /\ pc' = "verify_backup"
    /\ UNCHANGED <<request, backup, contacts, all_normal, savepoint_file,
                   external_refs, merged_remote, run, preview_mode,
                   processed_pairs, duplicates, idx, merged_pairs,
                   failed_merges, persisted_prev>>

\* 1) backup of the duplicate
BackupDuplicate ==
    /\ pc = "backup_duplicate"
    /\ calls' = Append(calls, <<"backup", duplicate.rev_user_id>>)
    /\ \E reads \in BackupReads :
          IF backup_contact_data(reads)
          THEN /\ cur' = [cur EXCEPT !.backup_duplicate = "ok"]
               /\ pc' = "verify_backup"
               /\ UNCHANGED <<idx, failed_merges, merged_pairs,
                              processed_pairs, savepoint_file,
                              external_refs>>
          ELSE Failed([cur EXCEPT !.backup_duplicate = "fail"],
                      BackupDuplicateError)
    /\ UNCHANGED <<request, backup, contacts, all_normal, merged_remote, run,
                   preview_mode, duplicates, persisted_prev>>

\* a verify_backup_integrity after which the merge call is left out
VerifyBackupIntegrityToLookup ==
    /\ pc = "verify_backup"
    /\ pc' = "verify_merge"
    /\ UNCHANGED <<request, backup, contacts, all_normal, savepoint_file,
                   external_refs, merged_remote, run, preview_mode,
                   processed_pairs, duplicates, idx, merged_pairs,
                   failed_merges, calls, cur, persisted_prev>>

\* 2) verify_backup_integrity(primary, duplicate), called inside the try of
\* merge_contacts: an exception leaving it would reach the except branch
VerifyBackupIntegrity ==
    /\ pc = "verify_backup"
    /\ \E outcome \in IntegrityOutcomes :
          LET steps == [cur EXCEPT !.integrity = outcome]
          IN  IF verify_backup_integrity(outcome) = "raise"
              THEN Failed(steps, IntegrityError)
              ELSE /\ cur' = steps
                   /\ pc' = "merge"
                   /\ UNCHANGED <<idx, failed_merges, merged_pairs,
                                  processed_pairs, savepoint_file,
                                  external_refs>>
    /\ UNCHANGED <<request, backup, contacts, all_normal, merged_remote, run,
                   preview_mode, duplicates, calls, persisted_prev>>

\* 3) DevRevAPI.merge_contacts: True when make_request returns, False when
\* it raises
ApiMergeContacts ==
    /\ pc = "merge"
    /\ calls' = Append(calls, <<"rev-users.merge", primary.rev_user_id,
                                duplicate.rev_user_id>>)
    /\ \E script \in Scripts :
          LET accepted == make_request(script, 0).ok
              steps == [cur EXCEPT !.merge = IF accepted THEN "ok" ELSE "fail",
                                   !.merge_script = script,
                                   !.integrity = "-"]
          IN  /\ merged_remote' =
                    IF accepted
                    THEN merged_remote \cup {<<primary.rev_user_id,
                                               duplicate.rev_user_id>>}
                    ELSE merged_remote
              /\ IF api_merge_contacts(script)
                 THEN /\ cur' = steps
                      /\ pc' = "verify_merge"
                      /\ UNCHANGED <<idx, failed_merges, merged_pairs,
                                     processed_pairs, savepoint_file,
                                     external_refs>>
                 ELSE Failed(steps, MergeError)
    /\ UNCHANGED <<request, backup, contacts, all_normal, run, preview_mode,
                   duplicates, persisted_prev>>

\* 5) DevRevAPI.verify_merge on the duplicate; False is only logged, an
\* exception reaches the except branch of merge_contacts
VerifyMerge ==
    /\ pc = "verify_merge"
    /\ calls' = Append(calls, <<"rev-users.get", duplicate.rev_user_id>>)
    /\ \E lookup \in Lookups :
          LET v == verify_merge(lookup)
              steps == [cur EXCEPT !.lookup = lookup, !.verify = v,
                                   !.merge_script = <<>>]
          IN  IF v = "raise"
              THEN Failed(steps, LookupError)
              ELSE /\ cur' = steps
                   /\ pc' = "update_ref"
                   /\ UNCHANGED <<idx, failed_merges, merged_pairs,
                                  processed_pairs, savepoint_file,
                                  external_refs>>
    /\ UNCHANGED <<request, backup, contacts, all_normal, merged_remote, run,
                   preview_mode, duplicates, persisted_prev>>

\* an update whose False result aborts the pair
UpdateExternalRefFatal ==
    /\ pc = "update_ref"
    /\ calls' = Append(calls, <<"rev-users.update", primary.rev_user_id,
                                forced_external_ref(primary, duplicate)>>)
    /\ \E script \in Scripts :
          IF update_external_ref(script)
          THEN /\ external_refs' = [external_refs EXCEPT
                     ![primary.rev_user_id] = forced_external_ref(primary, duplicate)]
               /\ cur' = [cur EXCEPT !.update = "ok"]
               /\ pc' = "record"
               /\ UNCHANGED <<idx, failed_merges, merged_pairs,
                              processed_pairs, savepoint_file>>
          ELSE Failed([cur EXCEPT !.update = "fail"], "Failed to update external_ref")
    /\ UNCHANGED <<request, backup, contacts, all_normal, merged_remote, run,
                   preview_mode, duplicates, persisted_prev>>

\* 6) DevRevAPI.update_external_ref(primary.rev_user_id, duplicate.external_ref);
\* False is only logged
UpdateExternalRef ==
    /\ pc = "update_ref"
    /\ calls' = Append(calls, <<"rev-users.update", primary.rev_user_id,
                                forced_external_ref(primary, duplicate)>>)
    /\ \E script \in Scripts :
          IF update_external_ref(script)
          THEN /\ external_refs' = [external_refs EXCEPT
                     ![primary.rev_user_id] = forced_external_ref(primary, duplicate)]
               /\ cur' = [cur EXCEPT !.update = "ok"]
          ELSE /\ UNCHANGED external_refs
               /\ cur' = [cur EXCEPT !.update = "fail"]
    /\ pc' = "record"
    /\ UNCHANGED <<request, backup, contacts, all_normal, savepoint_file,
                   merged_remote, run, preview_mode, processed_pairs,
                   duplicates, idx, merged_pairs, failed_merges,
                   persisted_prev>>

\* SavePoint.save: rewrites the whole file from processed_pairs and swallows
\* every exception.  open(..., "w") may fail and leave the file as it was,
\* or the write may fail after the file was truncated.
save(file, pairs, outcome) ==
    IF outcome = "ok" THEN [kind |-> "ok", pairs |-> pairs]
    ELSE IF outcome = "open_failed" THEN file
    ELSE [kind |-> "corrupt", pairs |-> {}]

SaveOutcomes == {"ok", "open_failed", "write_failed"}

\* SavePoint.add_processed_pair
add_processed_pair(pairs, primary_id, duplicate_id) ==
    pairs \cup {<<primary_id, duplicate_id>>}

\* a ledger write that is not followed by merged_pairs.append
RecordProgressNoAppend ==
    /\ pc = "record"
    /\ processed_pairs' = add_processed_pair(processed_pairs,
                              primary.rev_user_id, duplicate.rev_user_id)
    /\ \E outcome \in SaveOutcomes :
          /\ savepoint_file' = save(savepoint_file, processed_pairs', outcome)
          /\ cur' = [cur EXCEPT !.save = outcome, !.result = "success"]
    /\ NextPair
    /\ UNCHANGED <<request, backup, contacts, all_normal, external_refs,
                   merged_remote, run, preview_mode, duplicates, merged_pairs,
                   failed_merges, calls, persisted_prev>>

\* savepoint.add_processed_pair, merged_pairs.append, return True
RecordProgress ==
    /\ pc = "record"
    /\ processed_pairs' = add_processed_pair(processed_pairs,
                              primary.rev_user_id, duplicate.rev_user_id)
    /\ \E outcome \in SaveOutcomes :
          /\ savepoint_file' = save(savepoint_file, processed_pairs', outcome)
          /\ cur' = [cur EXCEPT !.save = outcome, !.result = "success"]
    /\ merged_pairs' = Append(merged_pairs, <<primary, duplicate>>)
    /\ NextPair
    /\ UNCHANGED <<request, backup, contacts, all_normal, external_refs,
                   merged_remote, run, preview_mode, duplicates,
                   failed_merges, calls, persisted_prev>>

\* the script is started again on the same CSV and the same directory
Restart ==
    /\ pc = "done"
    /\ run < MaxRuns
    /\ run' = run + 1
    /\ pc' = "load"
    /\ persisted_prev' = IF savepoint_file.kind = "ok"
                         THEN savepoint_file.pairs ELSE {}
    /\ processed_pairs' = {}
    /\ duplicates' = <<>>
    /\ idx' = 0
    /\ merged_pairs' = <<>>
    /\ failed_merges' = <<>>
    /\ calls' = <<>>
    /\ cur' = NoSteps
    /\ preview_mode' = FALSE
    /\ UNCHANGED <<request, backup, contacts, all_normal, savepoint_file,
                   external_refs, merged_remote>>

Next ==
    \/ StartRun
    \/ ProcessCsv
    \/ BackupPrimary
    \/ BackupDuplicate
    \/ VerifyBackupIntegrity
    \/ ApiMergeContacts
    \/ VerifyMerge
    \/ UpdateExternalRef
    \/ RecordProgress
    \/ Restart

Spec == Init /\ [][Next]_vars

\* generate_report: the summary of the report
generate_report ==
    [total_merges_attempted |-> Len(merged_pairs) + Len(failed_merges),
     successful_merges |-> Len(merged_pairs),
     failed_merges |-> Len(failed_merges)]

(***************************************************************************)
(* The resolver alone: identify_duplicates applied to every CSV of up to   *)
(* MaxContacts rows and to ledgers of at most one pair.                     *)
(***************************************************************************)
ResolverEmails == {MailX, MailXUpper, MailA}
ResolverRefs == {EMPTY, REVU9, REVU8, USER1, USER2, REVUX}

\* the ledgers tried: empty, or one pair of two rows of the same email group
\* that both carry a marker (in either order, of either kind);
\* identify_duplicates only ever asks is_processed about such rows
ResolverLedgers(cs) ==
    LET marked == {k \in 1..Len(cs) : cs[k].external_ref \notin {EMPTY, REVUX}}
        asked == {xy \in marked \X marked :
                     /\ xy[1] # xy[2]
                     /\ Lower(cs[xy[1]].email) = Lower(cs[xy[2]].email)}
    IN  {{}} \cup {{<<IdNames[xy[1]], IdNames[xy[2]]>>} : xy \in asked}

InitResolver ==
    /\ \E n \in 0..MaxContacts : \E f \in [1..n -> ResolverEmails \X ResolverRefs] :
          contacts = Rows(n, f)
    /\ processed_pairs \in ResolverLedgers(contacts)
    /\ savepoint_file = [kind |-> "ok", pairs |-> processed_pairs]
    /\ external_refs = StoredRefs(contacts)
    /\ merged_remote = {}
    /\ run = 1
    /\ pc = "resolver_input"
    /\ preview_mode = FALSE
    /\ duplicates = <<>>
    /\ idx = 0
    /\ merged_pairs = <<>>
    /\ failed_merges = <<>>
    /\ calls = <<>>
    /\ cur = NoSteps
    /\ persisted_prev = processed_pairs
    /\ all_normal = TRUE
    /\ request = NoRequest
    /\ backup = NoBackup

Resolve ==
    /\ pc = "resolver_input"
    /\ duplicates' = identify_duplicates(contacts, processed_pairs)
    /\ pc' = "resolver_done"
    /\ UNCHANGED <<request, backup, contacts, all_normal, savepoint_file,
                   external_refs, merged_remote, run, preview_mode,
                   processed_pairs, idx, merged_pairs, failed_merges, calls,
                   cur, persisted_prev>>

NextResolver == Resolve

SpecResolver == InitResolver /\ [][NextResolver]_vars

(***************************************************************************)
(* The resolver on CSVs of up to MaxRows rows, long enough for two pairs   *)
(* whose rows interleave, over fewer refs than SpecResolver.               *)
(***************************************************************************)
GroupRefs == {EMPTY, REVU9, USER1}

InitGroups ==
    /\ \E n \in 0..MaxRows : \E f \in [1..n -> ResolverEmails \X GroupRefs] :
          contacts = Rows(n, f)
    /\ processed_pairs \in ResolverLedgers(contacts)
    /\ savepoint_file = [kind |-> "ok", pairs |-> processed_pairs]
    /\ external_refs = StoredRefs(contacts)
    /\ merged_remote = {}
    /\ run = 1
    /\ pc = "resolver_input"
    /\ preview_mode = FALSE
    /\ duplicates = <<>>
    /\ idx = 0
    /\ merged_pairs = <<>>
    /\ failed_merges = <<>>
    /\ calls = <<>>
    /\ cur = NoSteps
    /\ persisted_prev = processed_pairs
    /\ all_normal = TRUE
    /\ request = NoRequest
    /\ backup = NoBackup

NextGroups == Resolve

SpecGroups == InitGroups /\ [][NextGroups]_vars

(***************************************************************************)
(* The resolver on CSVs whose rows all carry a marker, two refs of each    *)
(* kind: the groups in which a marker occurs several times.                *)
(***************************************************************************)
MarkerRefs == {REVU9, REVU8, USER1, USER2}

InitMarkers ==
    /\ \E n \in 0..MaxContacts : \E f \in [1..n -> ResolverEmails \X MarkerRefs] :
          contacts = Rows(n, f)
    /\ processed_pairs \in ResolverLedgers(contacts)
    /\ savepoint_file = [kind |-> "ok", pairs |-> processed_pairs]
    /\ external_refs = StoredRefs(contacts)
    /\ merged_remote = {}
    /\ run = 1
    /\ pc = "resolver_input"
    /\ preview_mode = FALSE
    /\ duplicates = <<>>
    /\ idx = 0
    /\ merged_pairs = <<>>
    /\ failed_merges = <<>>
    /\ calls = <<>>
    /\ cur = NoSteps
    /\ persisted_prev = processed_pairs
    /\ all_normal = TRUE
    /\ request = NoRequest
    /\ backup = NoBackup

NextMarkers == Resolve

SpecMarkers == InitMarkers /\ [][NextMarkers]_vars

(***************************************************************************)
(* The start of a run alone: SavePoint.load and the resolution that        *)
(* follows it, for every CSV of up to MaxContacts rows and every kind of   *)
(* savepoint file.                                                         *)
(***************************************************************************)
LoadFiles(cs) ==
    {[kind |-> k, pairs |-> {}] : k \in {"missing", "corrupt"}}
    \cup {[kind |-> k, pairs |-> l] :
             k \in {"ok", "bad_structure"}, l \in ResolverLedgers(cs)}

InitLoad ==
    /\ \E n \in 0..MaxContacts : \E f \in [1..n -> RunEmails \X RunRefs] :
          contacts = Rows(n, f)
    /\ savepoint_file \in LoadFiles(contacts)
    /\ external_refs = StoredRefs(contacts)
    /\ merged_remote = {}
    /\ run = 1
    /\ pc = "load"
    /\ preview_mode = FALSE
    /\ processed_pairs = {}
    /\ duplicates = <<>>
    /\ idx = 0
    /\ merged_pairs = <<>>
    /\ failed_merges = <<>>
    /\ calls = <<>>
    /\ cur = NoSteps
    /\ persisted_prev = IF savepoint_file.kind = "ok"
                        THEN savepoint_file.pairs ELSE {}
    /\ all_normal = TRUE
    /\ request = NoRequest
    /\ backup = NoBackup

NextLoad ==
    \/ StartRun
    \/ ProcessCsv

SpecLoad == InitLoad /\ [][NextLoad]_vars

(***************************************************************************)
(* One call alone: the variables of the run when no run is followed        *)
(***************************************************************************)
run_vars == <<contacts, savepoint_file, external_refs, merged_remote, run, pc,
              preview_mode, processed_pairs, duplicates, idx, merged_pairs,
              failed_merges, calls, cur, persisted_prev, all_normal>>

NoRun(position) ==
    /\ contacts = <<>>
    /\ savepoint_file = [kind |-> "missing", pairs |-> {}]
    /\ external_refs = StoredRefs(<<>>)
    /\ merged_remote = {}
    /\ run = 1
    /\ pc = position
    /\ preview_mode = FALSE
    /\ processed_pairs = {}
    /\ duplicates = <<>>
    /\ idx = 0
    /\ merged_pairs = <<>>
    /\ failed_merges = <<>>
    /\ calls = <<>>
    /\ cur = NoSteps
    /\ persisted_prev = {}
    /\ all_normal = TRUE

(***************************************************************************)
(* make_request alone, attempt by attempt: one call with retry_count = 0   *)
(* against every sequence of responses.  The sequence is one response      *)
(* longer than the attempts the code can make.                             *)
(***************************************************************************)
ScriptLen == max_retries + 2

InitRequest ==
    /\ NoRun("make_request")
    /\ backup = NoBackup
    /\ \E script \in [1..ScriptLen -> Responses] :
          request = [NoRequest EXCEPT !.script = script, !.status = "running"]

\* an attempt that is followed by a retry after any error
AttemptRetriesEveryError ==
    /\ request.status = "running"
    /\ LET resp == request.script[request.retry_count + 1]
           made == [request EXCEPT !.attempts = @ + 1, !.last = resp]
           error == resp = TRANSPORT_ERROR \/ resp >= 400
       IN  request' =
               IF error /\ request.retry_count < max_retries
               THEN [made EXCEPT
                        !.sleeps = Append(@, retry_delay * 2^request.retry_count),
                        !.retry_count = @ + 1]
               ELSE [made EXCEPT
                        !.status = IF error THEN "raised" ELSE "returned"]
    /\ UNCHANGED <<run_vars, backup>>

\* an attempt that retries while retry_count <= max_retries
AttemptOneMoreRetry ==
    /\ request.status = "running"
    /\ LET resp == request.script[request.retry_count + 1]
           made == [request EXCEPT !.attempts = @ + 1, !.last = resp]
           retryable == resp # TRANSPORT_ERROR /\ resp \in RetryableStatus
       IN  request' =
               IF retryable /\ request.retry_count <= max_retries
               THEN [made EXCEPT
                        !.sleeps = Append(@, retry_delay * 2^request.retry_count),
                        !.retry_count = @ + 1]
               ELSE [made EXCEPT
                        !.status = IF resp = TRANSPORT_ERROR \/ resp >= 400
                                   THEN "raised" ELSE "returned"]
    /\ UNCHANGED <<run_vars, backup>>

\* one execution of the body of make_request: session.request, then either
\* return, or sleep retry_delay * 2**retry_count and call make_request with
\* retry_count + 1 (RetryableError and retry_count < max_retries), or raise
Attempt ==
    /\ request.status = "running"
    /\ LET resp == request.script[request.retry_count + 1]
           made == [request EXCEPT !.attempts = @ + 1, !.last = resp]
           retryable == resp # TRANSPORT_ERROR /\ resp \in RetryableStatus
       IN  request' =
               IF retryable /\ request.retry_count < max_retries
               THEN [made EXCEPT
                        !.sleeps = Append(@, retry_delay * 2^request.retry_count),
                        !.retry_count = @ + 1]
               ELSE [made EXCEPT
                        !.status = IF resp = TRANSPORT_ERROR \/ resp >= 400
                                   THEN "raised" ELSE "returned"]
    /\ UNCHANGED <<run_vars, backup>>

NextRequest == Attempt

SpecRequest == InitRequest /\ [][NextRequest]_vars

(***************************************************************************)
(* backup_contact_data alone: one call for a record, against every         *)
(* combination of failing remote reads.                                    *)
(***************************************************************************)
InitBackup ==
    /\ NoRun("backup_contact_data")
    /\ request = NoRequest
    /\ \E k \in 1..MaxContacts : \E reads \in BackupReads :
          backup = [contact |-> IdNames[k], reads |-> reads, result |-> "-"]

\* the call returns True or False
Backup ==
    /\ backup.result = "-"
    /\ backup' = [backup EXCEPT !.result =
                     IF backup_contact_data(backup.reads) THEN "true" ELSE "false"]
    /\ UNCHANGED <<run_vars, request>>

NextBackup == Backup

SpecBackup == InitBackup /\ [][NextBackup]_vars

(***************************************************************************)
(* Properties                                                              *)
(***************************************************************************)
PairIds(p) == <<p[1].rev_user_id, p[2].rev_user_id>>

\* the pair whose steps cur records
CurPair == duplicates[cur.idx]

MergeCallFor(p) ==
    \E k \in 1..Len(calls) :
        /\ calls[k][1] = "rev-users.merge"
        /\ calls[k][2] = p[1].rev_user_id
        /\ calls[k][3] = p[2].rev_user_id

UpdateCallFor(p) ==
    \E k \in 1..Len(calls) :
        calls[k][1] = "rev-users.update" /\ calls[k][2] = p[1].rev_user_id

LookupCallFor(p) ==
    \E k \in 1..Len(calls) :
        calls[k][1] = "rev-users.get" /\ calls[k][2] = p[2].rev_user_id

InMerged(p) == \E k \in 1..Len(merged_pairs) : merged_pairs[k] = p

InFailed(p) ==
    \E k \in 1..Len(failed_merges) :
        <<failed_merges[k][1], failed_merges[k][2]>> = p

LastFailedIs(p, error) ==
    /\ Len(failed_merges) > 0
    /\ failed_merges[Len(failed_merges)] = <<p[1], p[2], error>>

\* C1: in normal mode, when backup_contact_data fails for the primary or
\* for the duplicate of a pair, no rev-users.merge and no rev-users.update
\* call is issued for that pair, the pair is added neither to the in-memory
\* ledger nor to the savepoint file, and the pair ends in failed_merges (and
\* not in merged_pairs) with the backup error.
C1_BackupFailureAborts ==
    /\ \A k \in 1..Len(failed_merges) :
          failed_merges[k][3] \in {BackupPrimaryError, BackupDuplicateError} =>
              LET p == <<failed_merges[k][1], failed_merges[k][2]>>
              IN  /\ ~MergeCallFor(p)
                  /\ ~UpdateCallFor(p)
                  /\ PairIds(p) \notin processed_pairs
                  /\ PairIds(p) \notin savepoint_file.pairs
                  /\ ~InMerged(p)
    /\ cur.backup_primary = "fail" =>
          cur.result = "failure" /\ LastFailedIs(CurPair, BackupPrimaryError)
    /\ cur.backup_duplicate = "fail" =>
          cur.result = "failure" /\ LastFailedIs(CurPair, BackupDuplicateError)

\* the duplicate's backup failed after an earlier pair of the run was merged
C1_Witness ==
    /\ cur.backup_duplicate = "fail"
    /\ cur.result = "failure"
    /\ Len(merged_pairs) > 0

\* C2: when the merge call of a pair fails, the pair ends in failed_merges
\* with the merge error, no rev-users.get lookup and no rev-users.update is
\* issued for it, and it is not added to the ledger; the ledger, in memory
\* and on disk, only holds pairs whose merge the RecordStore accepted.
C2_MergeFailureAborts ==
    /\ \A k \in 1..Len(failed_merges) :
          failed_merges[k][3] = MergeError =>
              LET p == <<failed_merges[k][1], failed_merges[k][2]>>
              IN  /\ ~LookupCallFor(p)
                  /\ ~UpdateCallFor(p)
                  /\ PairIds(p) \notin processed_pairs
                  /\ PairIds(p) \notin savepoint_file.pairs
                  /\ ~InMerged(p)
    /\ cur.merge = "fail" =>
          cur.result = "failure" /\ LastFailedIs(CurPair, MergeError)
    /\ processed_pairs \subseteq merged_remote
    /\ savepoint_file.pairs \subseteq merged_remote

\* a merge call failed in a run whose ledger already holds a pair
C2_Witness ==
    /\ cur.merge = "fail"
    /\ cur.result = "failure"
    /\ processed_pairs # {}

\* C3: when the merge call succeeded and update_external_ref fails, the
\* pair goes on to the ledger write: it is appended to merged_pairs and not
\* to failed_merges, its ids are in the in-memory ledger (and in the
\* savepoint file when the save succeeded), and a later run issues no
\* rev-users.update for a pair it loaded from the ledger.
C3_UpdateFailureStillSuccess ==
    /\ cur.update = "fail" =>
          /\ cur.merge = "ok"
          /\ IF cur.result = "-"
             THEN pc = "record" /\ idx = cur.idx
             ELSE /\ cur.result = "success"
                  /\ merged_pairs[Len(merged_pairs)] = CurPair
                  /\ ~InFailed(CurPair)
                  /\ PairIds(CurPair) \in processed_pairs
                  /\ cur.save = "ok" =>
                        /\ savepoint_file.kind = "ok"
                        /\ PairIds(CurPair) \in savepoint_file.pairs
    /\ \A ab \in persisted_prev :
          ~\E k \in 1..Len(calls) :
              calls[k][1] = "rev-users.update" /\ calls[k][2] = ab[1]

\* the update failed and the pair was recorded as a success and saved
C3_Witness ==
    /\ cur.update = "fail"
    /\ cur.result = "success"
    /\ cur.save = "ok"
    /\ external_refs[CurPair[1].rev_user_id] = CurPair[1].external_ref

\* C4: once the merge call of a pair succeeded, no outcome of the lookup of
\* verify_merge (not found, terminal state, still active, HTTP error,
\* transport exception) aborts the pair: the update is attempted next and
\* the pair is never recorded as a failure.
C4_VerifyNeverAborts ==
    (cur.merge = "ok" /\ cur.lookup # "-") =>
        /\ cur.result # "failure"
        /\ ~InFailed(CurPair)
        /\ (pc = "update_ref" /\ idx = cur.idx) \/ UpdateCallFor(CurPair)

(***************************************************************************)
(* Properties of the resolver                                              *)
(***************************************************************************)
Emitted == 1..Len(duplicates)

\* C5: identify_duplicates emits no pair whose (first id, second id) is in
\* the ledger it was given.
C5_NoLedgerPairEmitted ==
    pc = "resolver_done" =>
        \A k \in Emitted : PairIds(duplicates[k]) \notin processed_pairs

\* a REVU-/user_ group whose key is in the ledger, and nothing emitted
C5_Witness ==
    /\ pc = "resolver_done"
    /\ Len(contacts) = 2
    /\ StartsWith(contacts[1].external_ref, USER_PREFIX)
    /\ StartsWith(contacts[2].external_ref, REVU_PREFIX)
    /\ Lower(contacts[1].email) = Lower(contacts[2].email)
    /\ processed_pairs = {<<contacts[2].rev_user_id, contacts[1].rev_user_id>>}
    /\ duplicates = <<>>

\* C7: the two records of every emitted pair have the same lower-cased
\* email, exactly one of the two has an external ref starting with "user_"
\* and exactly one has an external ref starting with "REVU-".
C7_PairsWellFormed ==
    \A k \in Emitted :
        LET two == {duplicates[k][1], duplicates[k][2]}
        IN  /\ Lower(duplicates[k][1].email) = Lower(duplicates[k][2].email)
            /\ Cardinality({c \in two : StartsWith(c.external_ref, USER_PREFIX)}) = 1
            /\ Cardinality({c \in two : StartsWith(c.external_ref, REVU_PREFIX)}) = 1
            /\ \A c \in two : \/ StartsWith(c.external_ref, USER_PREFIX)
                              \/ StartsWith(c.external_ref, REVU_PREFIX)

\* a pair was emitted from a group of three that also holds a record with
\* an empty or unrecognized ref, the pair's emails differing in case
C7_Witness ==
    /\ pc = "resolver_done"
    /\ Len(contacts) = 3
    /\ Len(duplicates) = 1
    /\ duplicates[1][1].email # duplicates[1][2].email
    /\ \E i \in 1..3 :
          /\ contacts[i].external_ref \in {EMPTY, REVUX}
          /\ Lower(contacts[i].email) = Lower(duplicates[1][1].email)

\* occurrences of a marker in the group of a lower-cased email
KindCount(key, prefix) ==
    Cardinality({i \in 1..Len(contacts) :
                    /\ Lower(contacts[i].email) = key
                    /\ StartsWith(contacts[i].external_ref, prefix)})

PairsFor(key) == {k \in Emitted : Lower(duplicates[k][1].email) = key}

AllKeys == {Lower(contacts[i].email) : i \in 1..Len(contacts)}

MergeCalls == {k \in 1..Len(calls) : calls[k][1] = "rev-users.merge"}

\* C6 as stated: after a run in normal mode, a second run in normal mode on
\* the same CSV, starting from the savepoint file the first run left,
\* issues no merge call.
C6_SecondRunNoMerge ==
    (run = 2 /\ all_normal) => MergeCalls = {}

\* C6 amended: a run that starts from the savepoint file left by the run
\* before it issues no merge call for a pair that file holds; it issues
\* none at all when the file holds every pair the CSV resolves to.  A pair
\* the earlier run did not get into the file is attempted again.
C6_SecondRunSkipsLedgerPairs ==
    run >= 2 =>
        /\ \A k \in MergeCalls : <<calls[k][2], calls[k][3]>> \notin persisted_prev
        /\ LET all == identify_duplicates(contacts, {})
           IN  (\A k \in 1..Len(all) : PairIds(all[k]) \in persisted_prev)
                   => MergeCalls = {}

\* the second run is over: it skipped the pair of the ledger and attempted
\* the other pair again
C6_Witness ==
    /\ run = 2
    /\ all_normal
    /\ pc = "done"
    /\ persisted_prev # {}
    /\ Len(identify_duplicates(contacts, {})) = 2
    /\ Cardinality(MergeCalls) = 1

\* C8 as stated: the first record of every emitted pair carries "user_",
\* the second carries "REVU-".
C8_NativeIsPrimary ==
    \A k \in Emitted :
        /\ StartsWith(duplicates[k][1].external_ref, USER_PREFIX)
        /\ StartsWith(duplicates[k][2].external_ref, REVU_PREFIX)

\* C8 amended: the first record of every emitted pair (the primary of the
\* merge call, the survivor) carries "REVU-" and the second (the secondary,
\* retired) carries "user_"; every merge call and every ledger entry of the
\* run is (id of the "REVU-" record, id of the "user_" record) of an
\* emitted pair.
C8_RevuIsPrimary ==
    /\ \A k \in Emitted :
          /\ StartsWith(duplicates[k][1].external_ref, REVU_PREFIX)
          /\ StartsWith(duplicates[k][2].external_ref, USER_PREFIX)
    /\ \A k \in MergeCalls :
          \E j \in Emitted : PairIds(duplicates[j]) = <<calls[k][2], calls[k][3]>>
    /\ \A ab \in processed_pairs \ persisted_prev :
          \E j \in Emitted : PairIds(duplicates[j]) = ab

\* a pair was merged and written to the ledger
C8_Witness ==
    /\ cur.result = "success"
    /\ cur.save = "ok"
    /\ PairIds(CurPair) \in savepoint_file.pairs
    /\ CurPair[1].external_ref = REVU9
    /\ CurPair[2].external_ref = USER1

\* the ref of the pair that starts with "REVU-"
ImportedRef(p) ==
    IF StartsWith(p[1].external_ref, REVU_PREFIX)
    THEN p[1].external_ref ELSE p[2].external_ref

\* C9 as stated: after a successful orchestration whose update succeeded,
\* the surviving record's external ref in the RecordStore is the "REVU-"
\* value of the pair.
C9_SurvivorHasImportedRef ==
    (cur.result = "success" /\ cur.update = "ok") =>
        external_refs[CurPair[1].rev_user_id] = ImportedRef(CurPair)

\* C9 amended: after a successful orchestration whose update succeeded, the
\* surviving record's external ref in the RecordStore is the retired
\* record's original ref, which is the "user_" value of the pair; for A
\* ("user_1") and B ("REVU-9") sharing an email the survivor is B and its
\* final ref is "user_1".
C9_SurvivorHasRetiredRef ==
    (cur.result = "success" /\ cur.update = "ok") =>
        /\ external_refs[CurPair[1].rev_user_id] = CurPair[2].external_ref
        /\ StartsWith(external_refs[CurPair[1].rev_user_id], USER_PREFIX)
        /\ contacts = <<ContactAt(1, MailX, USER1), ContactAt(2, MailX, REVU9)>>
              => external_refs = [i \in {"A", "B"} |-> USER1]

\* A ("user_1") and B ("REVU-9") were merged and the update succeeded
C9_Witness ==
    /\ contacts = <<ContactAt(1, MailX, USER1), ContactAt(2, MailX, REVU9)>>
    /\ cur.result = "success"
    /\ cur.update = "ok"
    /\ PairIds(CurPair) = <<"B", "A">>

(***************************************************************************)
(* Properties of the preview mode                                          *)
(***************************************************************************)
\* C11: in a run started with --preview, process_csv resolves the pairs
\* and returns: the run never enters the orchestration of a pair, it issues
\* no backup, merge, lookup or update call, it appends nothing to
\* merged_pairs or failed_merges, the in-memory ledger stays what load read
\* from the file, and no step of the run changes the savepoint file, the
\* ledger or the RecordStore.
C11_PreviewResolvesOnly ==
    /\ [](preview_mode =>
            /\ pc \in {"process_csv", "done"}
            /\ calls = <<>>
            /\ merged_pairs = <<>>
            /\ failed_merges = <<>>
            /\ processed_pairs = load(savepoint_file)
            /\ load(savepoint_file) = persisted_prev
            /\ pc = "done" =>
                  duplicates = identify_duplicates(contacts, persisted_prev))
    /\ [][(preview_mode /\ preview_mode') =>
            UNCHANGED <<savepoint_file, processed_pairs, external_refs,
                        merged_remote, calls, merged_pairs, failed_merges>>]_vars

\* a preview run is over: it resolved a pair of the CSV, the ledger it
\* loaded holds the other pair
C11_Witness ==
    /\ preview_mode
    /\ pc = "done"
    /\ run = 2
    /\ persisted_prev # {}
    /\ Len(duplicates) = 1
    /\ savepoint_file = [kind |-> "ok", pairs |-> persisted_prev]

(***************************************************************************)
(* Properties of the retried merge request                                 *)
(***************************************************************************)
\* the first two attempts met a retryable response, the third a success
RetriedTwiceThenAccepted(script) ==
    /\ Len(script) >= 3
    /\ script[1] \in RetryableStatus
    /\ script[2] \in RetryableStatus
    /\ script[3] = 200

\* every attempt the retry bound allows met a retryable response
AlwaysRetryable(script) ==
    /\ Len(script) >= max_retries + 1
    /\ \A k \in 1..(max_retries + 1) : script[k] \in RetryableStatus

LastCallIsMergeOf(p) ==
    /\ Len(calls) > 0
    /\ calls[Len(calls)] = <<"rev-users.merge", p[1].rev_user_id, p[2].rev_user_id>>

\* C12: when the merge request of a pair meets a retryable response on its
\* first two attempts and a success on the third, the merge step succeeds
\* with three attempts, the pair is not recorded as a failure and the
\* lookup of verify_merge is the next step; a pair whose merge step
\* succeeded goes through lookup, update and ledger write in that order and
\* ends in merged_pairs and in the ledger (a lookup that raises is the case
\* of C4).  When every attempt up to max_retries + 1 meets a retryable
\* response, the pair ends in failed_merges with the merge error and is in
\* neither the in-memory ledger nor the savepoint file.
C12_RetriedMergeOutcome ==
    /\ RetriedTwiceThenAccepted(cur.merge_script) =>
          /\ cur.merge = "ok"
          /\ make_request(cur.merge_script, 0).attempts = 3
          /\ pc = "verify_merge"
          /\ idx = cur.idx
          /\ cur.result = "-"
          /\ ~InFailed(CurPair)
          /\ LastCallIsMergeOf(CurPair)
          /\ PairIds(CurPair) \in merged_remote
    /\ cur.merge = "ok" =>
          /\ cur.lookup = "-" => (pc = "verify_merge" /\ idx = cur.idx)
          /\ (cur.lookup # "-" /\ cur.verify # "raise" /\ cur.update = "-")
                => (pc = "update_ref" /\ idx = cur.idx)
          /\ (cur.update # "-" /\ cur.result = "-")
                => (pc = "record" /\ idx = cur.idx)
          /\ cur.result = "failure" => cur.verify = "raise"
          /\ cur.result = "success" =>
                /\ cur.update # "-"
                /\ merged_pairs[Len(merged_pairs)] = CurPair
                /\ PairIds(CurPair) \in processed_pairs
    /\ AlwaysRetryable(cur.merge_script) =>
          /\ cur.merge = "fail"
          /\ make_request(cur.merge_script, 0).attempts = max_retries + 1
          /\ cur.result = "failure"
          /\ LastFailedIs(CurPair, MergeError)
          /\ ~InMerged(CurPair)
          /\ PairIds(CurPair) \notin processed_pairs
          /\ PairIds(CurPair) \notin savepoint_file.pairs
          /\ ~LookupCallFor(CurPair)

\* the merge of the second pair was accepted at the third attempt, after
\* the merge of the first pair had failed
C12_Witness ==
    /\ RetriedTwiceThenAccepted(cur.merge_script)
    /\ cur.idx = 2
    /\ pc = "verify_merge"
    /\ Len(failed_merges) = 1
    /\ failed_merges[1][3] = MergeError

(***************************************************************************)
(* Properties of make_request                                              *)
(***************************************************************************)
Finished == request.status \in {"returned", "raised"}

\* C13: make_request makes another attempt only after a response with
\* status 429, 500, 502, 503 or 504, and sleeps retry_delay * 2^k before
\* the retry number k + 1 only.  After any other error (400, 401, 404, or a
\* transport exception) no further attempt is made and the error is raised:
\* when it is the first response, exactly one attempt was made and nothing
\* was slept.  The call attempt by attempt agrees with make_request.
C13_OnlyTransientRetried ==
    /\ \A k \in 1..(request.attempts - 1) :
          request.script[k] \in RetryableStatus
    /\ Len(request.sleeps) = request.retry_count
    /\ \A k \in 1..Len(request.sleeps) :
          /\ request.sleeps[k] = retry_delay * 2^(k - 1)
          /\ request.script[k] \in RetryableStatus
    /\ (request.attempts >= 1 /\ request.last \notin RetryableStatus) =>
          /\ Finished
          /\ request.status = "raised" <=>
                (request.last = TRANSPORT_ERROR \/ request.last >= 400)
    /\ (request.attempts >= 1 /\ request.script[1] \notin RetryableStatus) =>
          /\ Finished
          /\ request.attempts = 1
          /\ request.sleeps = <<>>
    /\ Finished =>
          make_request(request.script, 0) =
              [ok |-> request.status = "returned",
               attempts |-> request.attempts, last |-> request.last]

\* a transport exception at the first attempt was raised at once, although
\* the next attempt would have met a success
C13_Witness ==
    /\ request.status = "raised"
    /\ request.attempts = 1
    /\ request.sleeps = <<>>
    /\ request.script[1] = TRANSPORT_ERROR
    /\ request.script[2] = 200

\* C20: one call of make_request ends after at most max_retries + 1 = 4
\* attempts whatever the responses are: every execution of its body makes
\* one attempt, and either ends the call or raises retry_count by one;
\* retry_count goes from 0 to at most max_retries = 3; a call that is not
\* over can always make its next attempt; a call that is over returned the
\* last response when it was a success and raised the last error otherwise.
C20_BoundedAttempts ==
    /\ [](/\ request.attempts <= max_retries + 1
          /\ request.retry_count \in 0..max_retries
          /\ request.status = "running" =>
                /\ request.attempts = request.retry_count
                /\ ENABLED Attempt
          /\ Finished =>
                /\ request.attempts = request.retry_count + 1
                /\ request.last = request.script[request.attempts]
                /\ request.status = "returned" <=>
                      (request.last # TRANSPORT_ERROR /\ request.last < 400)
                /\ ~ENABLED Attempt)
    /\ [][/\ request.status = "running"
          /\ request'.attempts = request.attempts + 1
          /\ \/ request'.status \in {"returned", "raised"}
                /\ request'.retry_count = request.retry_count
             \/ request'.status = "running"
                /\ request'.retry_count = request.retry_count + 1]_vars

\* four attempts met a retryable response: the last error was raised after
\* sleeps of 2, 4 and 8 seconds, although a fifth attempt would have met a
\* success
C20_Witness ==
    /\ request.status = "raised"
    /\ request.attempts = max_retries + 1
    /\ request.retry_count = max_retries
    /\ request.sleeps = <<2, 4, 8>>
    /\ request.last \in RetryableStatus
    /\ request.script[ScriptLen] = 200

(***************************************************************************)
(* Properties of the savepoint                                             *)
(***************************************************************************)
\* C14: once add_processed_pair has returned for a pair, the savepoint file
\* is readable and holds that pair together with every pair recorded before
\* it (those of this run and those the run loaded), so that a run started
\* afterwards loads the pair and does not attempt it again.
C14_RecordedPairIsDurable ==
    cur.result = "success" =>
        /\ savepoint_file.kind = "ok"
        /\ PairIds(CurPair) \in savepoint_file.pairs
        /\ processed_pairs \subseteq savepoint_file.pairs
        /\ persisted_prev \subseteq savepoint_file.pairs
        /\ \A k \in 1..Len(identify_duplicates(contacts, load(savepoint_file))) :
              identify_duplicates(contacts, load(savepoint_file))[k] # CurPair

Attempted ==
    SelectSeq(calls, LAMBDA c :
        /\ c[1] = "backup"
        /\ \E k \in Emitted : duplicates[k][1].rev_user_id = c[2])

\* pairs whose orchestration is over
FinishedPairs == IF pc = "done" THEN Len(duplicates) ELSE idx - 1

\* C16: in normal mode the pairs are attempted one by one in the order
\* identify_duplicates emitted them, each exactly once, whatever happened to
\* the pairs before: the k-th orchestration opened is that of the k-th
\* emitted pair, every pair before the current one has ended in exactly one
\* outcome, a run that is not over can always take its next step, and a run
\* that is over has attempted every emitted pair.
C16_EveryPairAttemptedOnce ==
    (~preview_mode /\ pc \notin {"load", "process_csv"}) =>
        /\ Len(Attempted) = IF pc = "done" THEN Len(duplicates)
                            ELSE IF pc = "backup_primary" THEN idx - 1
                            ELSE idx
        /\ \A k \in 1..Len(Attempted) :
              Attempted[k] = <<"backup", duplicates[k][1].rev_user_id>>
        /\ Len(merged_pairs) + Len(failed_merges) = FinishedPairs
        /\ \A k \in 1..FinishedPairs :
              InMerged(duplicates[k]) \/ InFailed(duplicates[k])
        /\ pc # "done" => (idx \in Emitted /\ ENABLED Next)
        /\ pc = "done" => Len(Attempted) = Len(duplicates)

\* the run is over: the lookup of the first pair raised, the second pair was
\* attempted after it and merged
C16_Witness ==
    /\ ~preview_mode
    /\ pc = "done"
    /\ Len(duplicates) = 2
    /\ Len(failed_merges) = 1
    /\ failed_merges[1] = <<duplicates[1][1], duplicates[1][2], LookupError>>
    /\ merged_pairs = <<duplicates[2]>>

IsPrefix(a, b) ==
    /\ Len(a) <= Len(b)
    /\ \A i \in 1..Len(a) : a[i] = b[i]

TimesMerged(p) == Cardinality({k \in 1..Len(merged_pairs) : merged_pairs[k] = p})

TimesFailed(p) ==
    Cardinality({k \in 1..Len(failed_merges) :
                    <<failed_merges[k][1], failed_merges[k][2]>> = p})

\* C17: merged_pairs and failed_merges only grow by appending during a run,
\* no emitted pair is ever in both or twice in one, every entry of
\* failed_merges carries the message of the exception, and when a run in
\* normal mode is over every emitted pair is in exactly one of the two and
\* the summary of the report has total_merges_attempted = successful_merges
\* + failed_merges = number of emitted pairs.
C17_OutcomesPartition ==
    /\ [](/\ \A k \in Emitted :
                TimesMerged(duplicates[k]) + TimesFailed(duplicates[k]) <= 1
          /\ \A k \in 1..Len(failed_merges) :
                failed_merges[k][3] \in {BackupPrimaryError, BackupDuplicateError,
                                         MergeError, LookupError}
          /\ (~preview_mode /\ pc = "done") =>
                /\ \A k \in Emitted :
                      TimesMerged(duplicates[k]) + TimesFailed(duplicates[k]) = 1
                /\ generate_report.total_merges_attempted =
                      generate_report.successful_merges
                         + generate_report.failed_merges
                /\ generate_report.total_merges_attempted = Len(duplicates)
                /\ generate_report.successful_merges = Len(merged_pairs)
                /\ generate_report.failed_merges = Len(failed_merges))
    /\ [][run' = run =>
            /\ IsPrefix(merged_pairs, merged_pairs')
            /\ IsPrefix(failed_merges, failed_merges')]_vars

\* the run is over: the first pair is in merged_pairs, the second in
\* failed_merges with the error of its backup
C17_Witness ==
    /\ ~preview_mode
    /\ pc = "done"
    /\ Len(duplicates) = 2
    /\ merged_pairs = <<duplicates[1]>>
    /\ failed_merges =
          <<<<duplicates[2][1], duplicates[2][2], BackupDuplicateError>>>>
    /\ generate_report.total_merges_attempted = 2

(***************************************************************************)
(* Properties of verify_merge and backup_contact_data                      *)
(***************************************************************************)
\* C18: verify_merge reports the duplicate as merged exactly when the
\* lookup found no record (404) or found it in one of the states deleted,
\* locked, shadow, archived; for an active record and for a lookup that
\* ended in any other error it does not report merged.
C18_MergedIffGoneOrTerminal ==
    cur.lookup # "-" =>
        (cur.verify = "true" <=>
            cur.lookup \in {"not_found", "deleted", "locked", "shadow", "archived"})

\* C19: backup_contact_data returns True only when every remote read of
\* the capture succeeded: the profile fetch, the three work-item listings
\* (owned_by, created_by, reported_by) and the conversation listing; the
\* failure of any of them makes it return False.
C19_BackupOkImpliesAllReads ==
    backup.result # "-" =>
        (backup.result = "true" <=>
            /\ backup.reads.user
            /\ backup.reads.owned
            /\ backup.reads.created
            /\ backup.reads.reported
            /\ backup.reads.conversations)

(***************************************************************************)
(* Properties of the order of the steps                                    *)
(***************************************************************************)
\* the emitted pair a remote call belongs to, and the number of its step
CallPair(c) ==
    CHOOSE k \in Emitted :
        c[2] \in {duplicates[k][1].rev_user_id, duplicates[k][2].rev_user_id}

CallStep(c) ==
    IF c[1] = "backup"
    THEN IF c[2] = duplicates[CallPair(c)][1].rev_user_id THEN 1 ELSE 2
    ELSE IF c[1] = "rev-users.merge" THEN 3
    ELSE IF c[1] = "rev-users.get" THEN 4
    ELSE 5

\* the steps of merge_contacts, in the order of the code, and the position
\* a run can be at after each of them
StepOrder ==
    <<"backup_primary", "backup_duplicate", "verify_backup", "merge",
      "verify_merge", "update_ref", "record">>

StepNumber(position) == CHOOSE n \in 1..Len(StepOrder) : StepOrder[n] = position

\* C21: the remote calls of a run are issued pair after pair and, within a
\* pair, in the order backup(primary), backup(duplicate), merge, lookup,
\* update, each at most once and none without the one before it; a run
\* moves from a step only to the step that follows it in the order backup
\* of the primary, backup of the duplicate, verify backup, merge, verify
\* merge, update, ledger write with success append, or it leaves the pair
\* (failure, or the pair is complete) for the first step of the next pair
\* or the end of the run; no call of a pair is issued after a call of a
\* later pair.
C21_StepsInOrder ==
    /\ [](/\ \A i \in 1..Len(calls) :
                /\ \E k \in Emitted :
                      calls[i][2] \in {duplicates[k][1].rev_user_id,
                                       duplicates[k][2].rev_user_id}
                /\ CallStep(calls[i]) > 1 =>
                      /\ i > 1
                      /\ CallPair(calls[i - 1]) = CallPair(calls[i])
                      /\ CallStep(calls[i - 1]) = CallStep(calls[i]) - 1
                /\ CallStep(calls[i]) = 1 =>
                      \A j \in 1..(i - 1) : CallPair(calls[j]) < CallPair(calls[i])
          /\ \A i \in 1..Len(calls) : \A j \in (i + 1)..Len(calls) :
                CallPair(calls[i]) <= CallPair(calls[j])
          /\ cur.result = "success" =>
                /\ cur.save # "-"
                /\ cur.update # "-"
                /\ cur.lookup # "-"
                /\ cur.merge = "ok"
                /\ cur.backup_duplicate = "ok"
                /\ cur.backup_primary = "ok")
    /\ [][(pc \in {StepOrder[n] : n \in 1..Len(StepOrder)} /\ pc' # pc) =>
            \/ /\ StepNumber(pc) < Len(StepOrder)
               /\ pc' = StepOrder[StepNumber(pc) + 1]
               /\ idx' = idx
            \/ /\ pc' \in {"backup_primary", "done"}
               /\ idx' = idx + 1
               /\ pc \notin {"verify_backup", "update_ref"}]_vars

\* two pairs were merged one after the other: ten remote calls
C21_Witness ==
    /\ pc = "done"
    /\ Len(duplicates) = 2
    /\ Len(merged_pairs) = 2
    /\ Len(calls) = 10
    /\ CallPair(calls[5]) = 1
    /\ CallPair(calls[6]) = 2

\* the merge call of the pair being merged
MergeCallOfCurrent ==
    <<"rev-users.merge", primary.rev_user_id, duplicate.rev_user_id>>

\* C22: verify_backup_integrity never ends a pair.  Whatever it met (counts
\* that match, a count mismatch, no backup directory found, an error while
\* reading a snapshot), a pair whose two backups succeeded is left at the
\* merge step, not recorded as a failure, and the step taken from there
\* issues the merge call of the pair; no pair whose two backups succeeded
\* ends without its merge call.
C22_IntegrityNeverAborts ==
    /\ [](/\ cur.integrity # "-" =>
                /\ cur.backup_primary = "ok"
                /\ cur.backup_duplicate = "ok"
                /\ pc = "merge"
                /\ idx = cur.idx
                /\ cur.result = "-"
                /\ ~InFailed(CurPair)
                /\ ENABLED ApiMergeContacts
          /\ cur.backup_duplicate = "ok" =>
                \/ pc \in {"verify_backup", "merge"} /\ idx = cur.idx
                \/ MergeCallFor(CurPair)
          /\ \A k \in 1..Len(failed_merges) :
                failed_merges[k][3] # IntegrityError)
    /\ [][pc = "verify_backup" =>
            /\ pc' = "merge"
            /\ cur'.integrity \in IntegrityOutcomes
            /\ UNCHANGED <<idx, failed_merges, merged_pairs, calls>>]_vars
    /\ [][pc = "merge" => calls' = Append(calls, MergeCallOfCurrent)]_vars

\* the snapshot of the second pair could not be read: the pair is at the
\* merge step
C22_Witness ==
    /\ cur.integrity = "read_error"
    /\ cur.idx = 2
    /\ pc = "merge"
    /\ cur.backup_duplicate = "ok"

(***************************************************************************)
(* Properties of the groups of the resolver                                *)
(***************************************************************************)
\* the rows of the group of a lower-cased email
RowsOf(key) == {i \in 1..Len(contacts) : Lower(contacts[i].email) = key}

Marked(i, prefix) == StartsWith(contacts[i].external_ref, prefix)

\* the rows that are a member of some emitted pair
RowsInPairs ==
    {i \in 1..Len(contacts) :
        \E k \in Emitted : contacts[i] \in {duplicates[k][1], duplicates[k][2]}}

\* C23: for a same-email group of more than two records of which exactly
\* one carries "REVU-", exactly one carries "user_" and the others carry
\* neither, identify_duplicates emits exactly one pair, made of the two
\* marked records, unless the ledger holds that pair (then none, C5); the
\* unmarked records of the group are in no emitted pair.
C23_LargeGroupResolved ==
    pc = "resolver_done" =>
        \A key \in AllKeys :
            (/\ Cardinality(RowsOf(key)) > 2
             /\ KindCount(key, REVU_PREFIX) = 1
             /\ KindCount(key, USER_PREFIX) = 1) =>
                LET r == CHOOSE i \in RowsOf(key) : Marked(i, REVU_PREFIX)
                    u == CHOOSE i \in RowsOf(key) : Marked(i, USER_PREFIX)
                    inLedger == <<contacts[r].rev_user_id, contacts[u].rev_user_id>>
                                    \in processed_pairs
                IN  /\ Cardinality(PairsFor(key)) = IF inLedger THEN 0 ELSE 1
                    /\ \A k \in PairsFor(key) :
                          duplicates[k] = <<contacts[r], contacts[u]>>
                    /\ \A i \in RowsOf(key) \ {r, u} : i \notin RowsInPairs

\* three records share an email, the one in the middle carries no marker:
\* the first and the third are emitted as the only pair
C23_Witness ==
    /\ pc = "resolver_done"
    /\ Len(contacts) = 3
    /\ Cardinality(AllKeys) = 1
    /\ contacts[2].external_ref \in {EMPTY, REVUX}
    /\ processed_pairs = {}
    /\ Len(duplicates) = 1
    /\ RowsInPairs = {1, 3}

\* the row at which the group of a lower-cased email was first seen
FirstSeen(key) == CHOOSE i \in RowsOf(key) : \A j \in RowsOf(key) : i <= j

PairKey(k) == Lower(duplicates[k][1].email)

\* C24: identify_duplicates emits at most one pair for each lower-cased
\* email, no row of the CSV is a member of more than one emitted pair, and
\* the pairs are emitted in the order in which their email groups were
\* first seen in the CSV.
C24_OnePairPerGroupInOrder ==
    pc = "resolver_done" =>
        /\ \A key \in AllKeys : Cardinality(PairsFor(key)) <= 1
        /\ \A i \in 1..Len(contacts) :
              Cardinality({k \in Emitted :
                  contacts[i] \in {duplicates[k][1], duplicates[k][2]}}) <= 1
        /\ \A k \in Emitted : \A l \in Emitted :
              k < l => FirstSeen(PairKey(k)) < FirstSeen(PairKey(l))

\* the rows of two groups alternate, the second group holds the first row
\* of a pair before the first group does: two pairs, the group seen first
\* comes first
C24_Witness ==
    /\ pc = "resolver_done"
    /\ Len(contacts) = 4
    /\ Lower(contacts[1].email) = Lower(contacts[3].email)
    /\ Lower(contacts[2].email) = Lower(contacts[4].email)
    /\ Lower(contacts[1].email) # Lower(contacts[2].email)
    /\ Len(duplicates) = 2
    /\ PairKey(1) = Lower(contacts[1].email)
    /\ duplicates[1][1] = contacts[3]
    /\ duplicates[2][1] = contacts[2]

\* the last row of the group of a key that carries a marker
LastMarked(key, prefix) ==
    CHOOSE i \in RowsOf(key) :
        /\ Marked(i, prefix)
        /\ \A j \in RowsOf(key) : Marked(j, prefix) => j <= i

\* C25: in a same-email group that holds both markers, also several times,
\* identify_duplicates takes for each marker the last record of the group,
\* in input order, that carries it: the pair emitted for the group is (last
\* "REVU-" record, last "user_" record), and it is left out exactly when
\* the ledger holds the ids of those two records; a ledger entry for an
\* earlier record of the same marker does not leave it out.
C25_LastSeenSelected ==
    pc = "resolver_done" =>
        \A key \in AllKeys :
            (KindCount(key, REVU_PREFIX) >= 1 /\ KindCount(key, USER_PREFIX) >= 1) =>
                LET r == LastMarked(key, REVU_PREFIX)
                    u == LastMarked(key, USER_PREFIX)
                    inLedger == <<contacts[r].rev_user_id, contacts[u].rev_user_id>>
                                    \in processed_pairs
                IN  /\ inLedger => PairsFor(key) = {}
                    /\ ~inLedger =>
                          /\ Cardinality(PairsFor(key)) = 1
                          /\ \A k \in PairsFor(key) :
                                duplicates[k] = <<contacts[r], contacts[u]>>

\* two "REVU-" records and then a "user_" record share an email, and the
\* ledger holds the first "REVU-" record with the "user_" record: the pair
\* of the second "REVU-" record is emitted
C25_Witness ==
    /\ pc = "resolver_done"
    /\ Len(contacts) = 3
    /\ Cardinality(AllKeys) = 1
    /\ Marked(1, REVU_PREFIX)
    /\ Marked(2, REVU_PREFIX)
    /\ Marked(3, USER_PREFIX)
    /\ processed_pairs = {<<contacts[1].rev_user_id, contacts[3].rev_user_id>>}
    /\ duplicates = << <<contacts[2], contacts[3]>> >>

====
